---------------------------- MODULE Spec2Model ----------------------------
(***************************************************************************)
(* A model of the figma-to-prompt plugin: main(), the field extractors,    *)
(* the style probe, the structure renderer, the prompt assembler and the   *)
(* hidden clipboard UI.  Two revisions of the plugin are in the            *)
(* repository, src/code.ts and src/unnamed/part_000; the variable field    *)
(* doc.rev says which one a run executes.                                  *)
(*                                                                         *)
(* Strings.  A JavaScript string is a sequence of atoms, each atom a       *)
(* TLA+ string standing for an indivisible run of characters: a literal    *)
(* piece of a template ("- ", "Position: "), one indentation unit "  "     *)
(* (two spaces), a word, a line break "\n".  Concatenation is \o, and      *)
(* iterating a string (the spread ...s) yields its atoms one by one.       *)
(***************************************************************************)
EXTENDS Integers, Sequences, FiniteSets, TLC

VARIABLES
    doc,        \* the host document and the revision that runs
    pc,         \* where main() is: start, an await, returned, rejected
    meta,       \* the DesignMetadata main() has assembled so far
    tasks,      \* one getRecursiveStructure call per node: its position and lines
    top,        \* the extractStructureInfo call: its position and result
    order,      \* nodes in the order their renderings completed
    log,        \* the host API calls made so far, in order
    handler,    \* whether figma.ui.onmessage is installed
    toUi,       \* messages posted to the hidden UI and not yet handled
    toPlugin,   \* messages posted by the UI and not yet handled
    prompt,     \* the assembled prompt (the project description and the parts)
    input,      \* the input of a pure-function run
    output      \* the outcome of a pure-function run

vars == <<doc, pc, meta, tasks, top, order, log, handler, toUi, toPlugin,
          prompt, input, output>>

---------------------------------------------------------------------------
(* Bounds of the model *)

\* the most children a node of the document has
MaxChildren == 2

\* the most levels of descendants below the selected node
MaxDepth == 2

\* the most descendants of the selected node
MaxNodes == 4

---------------------------------------------------------------------------
(* Strings *)

\* the outcome of a call: a returned value or a thrown exception
Return(v) == [ok |-> TRUE, val |-> v]

Throw(msg) == [ok |-> FALSE, val |-> <<msg>>]

RECURSIVE Repeat(_, _)
\* s.repeat(n)
Repeat(s, n) == IF n <= 0 THEN <<>> ELSE s \o Repeat(s, n - 1)

RECURSIVE Join(_, _)
\* parts.join(sep), parts a sequence of strings
Join(parts, sep) ==
    IF parts = <<>> THEN <<>>
    ELSE IF Len(parts) = 1 THEN parts[1]
    ELSE parts[1] \o sep \o Join(Tail(parts), sep)

\* [...s]: the elements a spread of string s hands to push, one per atom
SpreadString(s) == [i \in 1..Len(s) |-> <<s[i]>>]

RECURSIVE SplitLines(_)
\* the lines of a text: text.split("\n")
SplitLines(text) ==
    IF \A i \in 1..Len(text) : text[i] # "\n" THEN <<text>>
    ELSE LET k == CHOOSE i \in 1..Len(text) :
                      text[i] = "\n" /\ \A j \in 1..(i - 1) : text[j] # "\n"
         IN  <<SubSeq(text, 1, k - 1)>> \o SplitLines(SubSeq(text, k + 1, Len(text)))

\* whitespace atoms, as \s and trim() see them
IsSpace(a) == a \in {" ", "  ", "\n"}

RECURSIVE TrimStart(_)
TrimStart(s) == IF s # <<>> /\ IsSpace(Head(s)) THEN TrimStart(Tail(s)) ELSE s

RECURSIVE TrimEnd(_)
TrimEnd(s) ==
    IF s # <<>> /\ IsSpace(s[Len(s)]) THEN TrimEnd(SubSeq(s, 1, Len(s) - 1)) ELSE s

\* s.trim()
Trim(s) == TrimEnd(TrimStart(s))

\* s.includes(atom), for the one-atom marker
Includes(s, a) == \E i \in 1..Len(s) : s[i] = a

RECURSIVE Split(_, _)
\* s.split(sep), sep a one-atom separator
Split(s, sep) ==
    IF ~Includes(s, sep) THEN <<s>>
    ELSE LET k == CHOOSE i \in 1..Len(s) :
                      s[i] = sep /\ \A j \in 1..(i - 1) : s[j] # sep
         IN  <<SubSeq(s, 1, k - 1)>> \o Split(SubSeq(s, k + 1, Len(s)), sep)

---------------------------------------------------------------------------
(* The host document.  A node is named by its path: Selected is the        *)
(* selected node, Append(n, i) the i-th child of n, Component the main     *)
(* component every instance is linked to, Container the parent of the      *)
(* selected node and Sibling a text node beside the selected node.  The    *)
(* record doc gives the shape: every node on the leftmost branch has       *)
(* doc.width children down to doc.height levels, the last child of a       *)
(* level is a text node, and doc.inst says which node is an instance.      *)

Selected == <<1>>

Component == <<2>>

Container == <<0>>

Sibling == <<0, 1>>

\* the instance node of the document (<<>>: there is none)
InstNode(d) ==
    CASE d.inst = "selected" -> Selected
      [] d.inst = "child" -> <<1, 1>>
      [] OTHER -> <<>>

IsSpine(n) == \A i \in 2..Len(n) : n[i] = 1

\* node.type
Type(d, n) ==
    IF n = Container THEN "FRAME"
    ELSE IF n = Sibling THEN "TEXT"
    ELSE IF n = Component THEN "COMPONENT"
    ELSE IF n[1] = 2 THEN (IF n[Len(n)] = d.compKids THEN "TEXT" ELSE "FRAME")
    ELSE IF n = InstNode(d) THEN "INSTANCE"
    ELSE IF n = Selected THEN (IF d.selText THEN "TEXT" ELSE "FRAME")
    ELSE IF n[Len(n)] = d.width /\ (d.width >= 2 \/ Len(n) - 1 = d.height)
         THEN "TEXT"
    ELSE "FRAME"

\* "children" in node: text nodes have no children property
HasChildren(d, n) == Type(d, n) # "TEXT"

\* node.children, a sequence of nodes (<<>> when the property is absent)
Children(d, n) ==
    LET count ==
            IF ~HasChildren(d, n) THEN 0
            ELSE IF n = Container THEN 0
            ELSE IF n = Component THEN d.compKids
            ELSE IF n[1] # 1 \/ ~IsSpine(n) THEN 0
            ELSE IF Len(n) - 1 >= d.height THEN 0
            ELSE IF n = InstNode(d) /\ ~d.instOwn THEN 0
            ELSE d.width
    IN  IF n = Container
        THEN (IF d.hasSibling THEN <<Selected, Sibling>> ELSE <<Selected>>)
        ELSE [i \in 1..count |-> Append(n, i)]

\* selected.parent (<<>>: the selected node has no parent)
Parent(d) == IF d.hasParent THEN Container ELSE <<>>

RECURSIVE PathString(_)
PathString(n) == IF n = <<>> THEN "" ELSE "-" \o ToString(Head(n)) \o PathString(Tail(n))

\* node.name; the first child of the main component is unnamed
Name(d, n) ==
    IF n = Selected THEN <<"Card">>
    ELSE IF n = Component THEN <<"CardMaster">>
    ELSE IF n = <<2, 1>> /\ Type(d, n) = "FRAME" THEN <<>>
    ELSE IF Type(d, n) = "TEXT" THEN <<"Title" \o PathString(Tail(n))>>
    ELSE <<"Node" \o PathString(Tail(n))>>

\* node.x and node.y, as template interpolation prints them
X(n) == ToString(Len(n))

Y(n) == ToString(n[Len(n)])

\* a description property: present or not, and its text
NoDescription == [has |-> FALSE, text |-> <<>>]

\* the description property of a node: the container, the selected node, the
\* main component and a first child that is a frame carry one
Description(d, n) ==
    IF n = Container THEN d.parentDesc
    ELSE IF n = Selected THEN d.selDesc
    ELSE IF n = Component THEN d.compDesc
    ELSE IF n = <<1, 1>> /\ Type(d, n) = "FRAME"
         THEN [has |-> TRUE, text |-> <<"Primary", " ", "area">>]
    ELSE NoDescription

\* textNode.characters
Characters(d, n) ==
    IF n = Sibling
    THEN (IF d.marker \in {"sibling", "both"}
          THEN <<"Spec", " ", "DESCRIPTION:", " ", "Sibling", " ", "brief", "\n">>
          ELSE <<"Notes">>)
    ELSE IF d.marker \in {"title", "both"}
         THEN <<"DESCRIPTION:", "  ", "Title", " ", "brief">>
         ELSE <<"Hello">>

\* the outcome of node.getMainComponentAsync(): the component, null, or a rejection
MainComponentOutcomes == {"component", "null", "reject"}

getMainComponentAsync(d, n) ==
    CASE d.mc = "component" -> Return(Component)
      [] d.mc = "null" -> Return(<<>>)
      [] OTHER -> Throw("getMainComponentAsync rejected")

---------------------------------------------------------------------------
(* Field extractors *)

Revisions == {"code.ts", "part_000"}

\* extractDescription of src/code.ts: ?? keeps an empty description
extractDescription_code(d, n) ==
    IF Type(d, n) = "INSTANCE"
    THEN LET mc == getMainComponentAsync(d, n)
         IN  IF ~mc.ok THEN mc
             ELSE IF mc.val = <<>> \/ ~Description(d, mc.val).has
                  THEN Return(<<"No description provided">>)
             ELSE Return(Description(d, mc.val).text)
    ELSE IF Description(d, n).has /\ Description(d, n).text # <<>>
         THEN Return(Description(d, n).text)
    ELSE Return(<<"No description provided in the selected component.">>)

\* extractDescription of src/unnamed/part_000: || replaces an empty description
extractDescription_part(d, n) ==
    IF Type(d, n) = "INSTANCE"
    THEN LET mc == getMainComponentAsync(d, n)
         IN  IF ~mc.ok THEN mc
             ELSE IF mc.val = <<>> \/ ~Description(d, mc.val).has
                     \/ Description(d, mc.val).text = <<>>
                  THEN Return(<<"No description provided">>)
             ELSE Return(Description(d, mc.val).text)
    ELSE IF Description(d, n).has /\ Description(d, n).text # <<>>
         THEN Return(Description(d, n).text)
    ELSE Return(<<"No description provided in the selected component.">>)

\* extractDescription(node), of the revision the document runs
extractDescription(d, n) ==
    IF d.rev = "code.ts" THEN extractDescription_code(d, n)
    ELSE extractDescription_part(d, n)

\* an atom that begins http:// or https://
IsUrlStart(a) == a \in {"https://figma.com/f", "http://a.io"}

RECURSIVE UrlMatches(_)
\* description.match(/(https?:\/\/[^\s]+)/g): each match runs from a URL start
\* to the next whitespace
UrlMatches(s) ==
    IF s = <<>> THEN <<>>
    ELSE IF ~IsUrlStart(Head(s)) THEN UrlMatches(Tail(s))
    ELSE LET stop == IF \E i \in 2..Len(s) : IsSpace(s[i])
                     THEN CHOOSE i \in 2..Len(s) :
                              IsSpace(s[i]) /\ \A j \in 2..(i - 1) : ~IsSpace(s[j])
                     ELSE Len(s) + 1
         IN  <<SubSeq(s, 1, stop - 1)>> \o UrlMatches(SubSeq(s, stop, Len(s)))

\* extractLinks(description)
extractLinks(description) ==
    IF UrlMatches(description) = <<>> THEN <<"No links found">>
    ELSE Join(UrlMatches(description), <<", ">>)

---------------------------------------------------------------------------
(* Style probe.  The style properties of a node are a record: fills and    *)
(* strokes are [kind, paints] with kind "absent" (no property, or a falsy  *)
(* one), "array" or "single" (a value that is no array); the others are    *)
(* "absent" or a value.  "CYCLIC" is a value JSON.stringify throws on,     *)
(* "MIXED" the symbol figma.mixed, "SYMBOL" a symbol in a padding.         *)

\* JSON.stringify(v)
JsonStringify(v) ==
    CASE v = "CYCLIC" -> Throw("TypeError: Converting circular structure to JSON")
      [] v = "MIXED" -> Return(<<"undefined">>)
      [] OTHER -> Return(<<"{" \o v \o "}">>)

\* processPaints(paints) / the Array.isArray conditional: each paint serialized
\* on its own and the results joined with ", "
processPaints(p) ==
    IF p.kind = "single" THEN JsonStringify(p.paints[1])
    ELSE IF \E i \in 1..Len(p.paints) : ~JsonStringify(p.paints[i]).ok
         THEN JsonStringify("CYCLIC")
    ELSE Return(Join([i \in 1..Len(p.paints) |-> JsonStringify(p.paints[i]).val],
                     <<", ">>))

\* the try/catch around one paint capability
PaintField(p, default, sentinel) ==
    IF p.kind = "absent" THEN <<default>>
    ELSE IF processPaints(p).ok THEN processPaints(p).val
    ELSE <<sentinel>>

\* the auto-layout field
AutoLayoutField(layoutMode) ==
    IF layoutMode = "absent" THEN <<"Not auto layout">>
    ELSE IF layoutMode # "NONE" THEN <<layoutMode>>
    ELSE <<"No auto layout">>

\* the padding template: interpolating a symbol throws
PaddingField(padding) ==
    CASE padding = "absent" -> Return(<<"No padding info">>)
      [] padding = "SYMBOL" ->
            Throw("TypeError: Cannot convert a Symbol value to a string")
      [] OTHER -> Return(<<"Top: ", padding, "px, Right: ", padding,
                           "px, Bottom: ", padding, "px, Left: ", padding, "px">>)

\* extractStyleInfo of src/code.ts
extractStyleInfo_code(s) ==
    IF ~PaddingField(s.padding).ok THEN PaddingField(s.padding)
    ELSE Return([fills |-> PaintField(s.fills, "No fill styles", "Could not parse fills"),
                 strokes |-> PaintField(s.strokes, "No stroke styles",
                                        "Could not parse strokes"),
                 autoLayout |-> AutoLayoutField(s.layoutMode),
                 paddings |-> PaddingField(s.padding).val,
                 position |-> <<"x: ", s.x, ", y: ", s.y>>,
                 size |-> <<"width: ", "100", ", height: ", "40">>])

\* extractStyleInfo of src/unnamed/part_000: the font name is serialized
\* outside any try
extractStyleInfo_part(s) ==
    IF s.fontName # "absent" /\ ~JsonStringify(s.fontName).ok
    THEN JsonStringify(s.fontName)
    ELSE IF ~PaddingField(s.padding).ok THEN PaddingField(s.padding)
    ELSE Return([fills |-> PaintField(s.fills, "No fill styles", "Could not parse fills"),
                 strokes |-> PaintField(s.strokes, "No stroke styles",
                                        "Could not parse strokes"),
                 autoLayout |-> AutoLayoutField(s.layoutMode),
                 paddings |-> PaddingField(s.padding).val,
                 position |-> <<"x: ", s.x, ", y: ", s.y>>,
                 size |-> <<"width: ", "100", ", height: ", "40">>,
                 fontFamily |-> IF s.fontName = "absent" THEN <<"No font family">>
                                ELSE JsonStringify(s.fontName).val,
                 fontSize |-> IF s.fontSize = "absent" THEN <<"No font size">>
                              ELSE <<s.fontSize>>])

\* extractStyleInfo(node), node given by its style properties
extractStyleInfo(rev, s) ==
    IF rev = "code.ts" THEN extractStyleInfo_code(s) ELSE extractStyleInfo_part(s)

\* the capability doc.bad names holds an unserializable value in every node
\* that has the capability
StyleProps(d, n) ==
    LET text == Type(d, n) = "TEXT"
    IN  [fills |-> [kind |-> "array",
                    paints |-> IF d.bad = "fills" THEN <<"SOLID", "CYCLIC">>
                               ELSE <<"SOLID">>],
         strokes |-> IF text THEN [kind |-> "absent", paints |-> <<>>]
                     ELSE IF d.bad = "strokes"
                          THEN [kind |-> "single", paints |-> <<"CYCLIC">>]
                     ELSE [kind |-> "array", paints |-> <<>>],
         fontName |-> IF ~text THEN "absent"
                      ELSE IF d.bad = "fontName" THEN "CYCLIC" ELSE "Inter",
         fontSize |-> IF text THEN "12" ELSE "absent",
         layoutMode |-> IF text THEN "absent"
                        ELSE IF n = Selected THEN "VERTICAL" ELSE "NONE",
         padding |-> IF text THEN "absent"
                     ELSE IF d.bad = "paddings" THEN "SYMBOL" ELSE "8",
         x |-> X(n), y |-> Y(n)]

\* one key of JSON.stringify(styles): a key whose value is undefined (or a
\* symbol) is left out
JsonKey(key, value) ==
    IF value \in {<<"undefined">>, <<"MIXED">>} THEN <<>>
    ELSE <<key>> \o value \o <<",">>

\* JSON.stringify(styles), for the StyleInfo of src/unnamed/part_000: one line
StylesJson(styles) ==
    <<"{">> \o JsonKey("fills:", styles.fills) \o JsonKey("strokes:", styles.strokes)
        \o JsonKey("autoLayout:", styles.autoLayout)
        \o JsonKey("paddings:", styles.paddings)
        \o JsonKey("position:", styles.position) \o JsonKey("size:", styles.size)
        \o JsonKey("fontFamily:", styles.fontFamily)
        \o JsonKey("fontSize:", styles.fontSize) \o <<"}">>

---------------------------------------------------------------------------
(* Prompt assembler *)

DEFAULT_DESCRIPTION ==
    <<"This is figma design for real-world medium alternative Conduit app (also known as the mother of all apps).">>

Marker == "DESCRIPTION:"

\* container.findOne exists on nodes with children, not on text nodes
HasFindOne(d, n) == Type(d, n) # "TEXT"

RECURSIVE Descendants(_, _)
\* the descendants of n in document order, as findOne walks them
Descendants(d, n) ==
    LET kids == Children(d, n)
        F[i \in 0..Len(kids)] ==
            IF i = 0 THEN <<>>
            ELSE F[i - 1] \o <<kids[i]>> \o Descendants(d, kids[i])
    IN  F[Len(kids)]

\* the predicate main's findOne is given
IsDescriptionNode(d, n) ==
    Type(d, n) = "TEXT" /\ Includes(Characters(d, n), Marker)

\* container.findOne(predicate): the first match in document order, <<>> for null
findOne(d, container) ==
    LET ds == Descendants(d, container)
    IN  IF \E i \in 1..Len(ds) : IsDescriptionNode(d, ds[i])
        THEN ds[CHOOSE i \in 1..Len(ds) :
                    /\ IsDescriptionNode(d, ds[i])
                    /\ \A j \in 1..(i - 1) : ~IsDescriptionNode(d, ds[j])]
        ELSE <<>>

\* parts[1].trim() of text.split("DESCRIPTION:"), JavaScript's parts[1] being
\* the second part
AfterMarker(text) == Trim(Split(text, Marker)[2])

\* getProjectDescription()
getProjectDescription(d) ==
    LET container == IF Parent(d) # <<>> THEN Parent(d) ELSE Selected
        desc == Description(d, container)
    IN  IF desc.has /\ Includes(desc.text, Marker)
        THEN Return(AfterMarker(desc.text))
        ELSE IF ~HasFindOne(d, container)
             THEN Throw("TypeError: container.findOne is not a function")
        ELSE IF findOne(d, container) # <<>>
             THEN Return(AfterMarker(Characters(d, findOne(d, container))))
        ELSE Return(DEFAULT_DESCRIPTION)

\* the Styles section: two lines in src/code.ts, JSON in src/unnamed/part_000
StylesSection(rev, styles) ==
    IF rev = "code.ts"
    THEN <<"Styles:", "\n", "- Fills: ">> \o styles.fills
             \o <<"\n", "- Strokes: ">> \o styles.strokes
    ELSE <<"Styles: ">> \o StylesJson(styles)

\* generatePrompt(metadata)
generatePrompt(d, metadata) ==
    LET pd == getProjectDescription(d)
    IN  IF ~pd.ok THEN pd
        ELSE Return(<<"\n", "Project Description: ">> \o pd.val
                 \o <<"\n", "\n", "General Guideline for creating a React component: ",
                      "COMPONENT_GUIDELINES", "\n", "\n", "Description: ">>
                 \o metadata.description
                 \o <<"\n", "\n", "Links: ">> \o metadata.links
                 \o <<"\n", "\n", "Note: ...", "\n", "\n">>
                 \o StylesSection(d.rev, metadata.styles)
                 \o <<"\n", "\n", "Structure (child components):", "\n">>
                 \o metadata.structure
                 \o <<"\n", "\n", "Please use appropriate HTML and CSS ...", "\n">>)

---------------------------------------------------------------------------
(* Structure renderer.  Each call of getRecursiveStructure is a task; a    *)
(* call runs to its first await when it is made, and each later step       *)
(* resumes one task whose awaited promise has settled.                     *)

\* the all-ones path of length k: Selected and its leftmost descendants
SpinePath(k) == [j \in 1..k |-> 1]

\* every node a rendering can visit
RenderNodes ==
    {Append(SpinePath(k), i) : k \in 1..MaxDepth, i \in 1..MaxChildren}
        \cup {Append(Component, i) : i \in 1..MaxChildren}

IdleTask ==
    [pc |-> "idle", depth |-> 0, lines |-> <<>>, kids |-> <<>>, next |-> 0,
     result |-> <<>>]

\* "  ".repeat(depth)
Indent(depth) == Repeat(<<"  ">>, depth)

\* `${indent}- ${node.type}${node.name ? ` (${node.name})` : ""}`
HeaderLine(d, n, depth) ==
    Indent(depth) \o <<"- ", Type(d, n)>>
        \o (IF Name(d, n) # <<>> THEN <<" (">> \o Name(d, n) \o <<")">> ELSE <<>>)

PositionLine(n, depth) == Indent(depth) \o <<"- Position: ", X(n), ", ", Y(n)>>

DescriptionLine(d, n, depth) ==
    Indent(depth) \o <<"- Description: ">> \o Description(d, n).text

TypeInfoLine(d, n, depth) ==
    Indent(depth) \o <<"- Node Type Specific Info: ", Type(d, n)>>

\* the lines src/code.ts has before its first await: the header, then the
\* same string spread into push, then the description string spread
StartLines_code(d, n, depth) ==
    <<HeaderLine(d, n, depth)>> \o SpreadString(HeaderLine(d, n, depth))
        \o (IF Description(d, n).has /\ Description(d, n).text # <<>>
            THEN SpreadString(DescriptionLine(d, n, depth)) ELSE <<>>)

\* the lines src/unnamed/part_000 has before its first await
StartLines_part(d, n, depth) ==
    <<HeaderLine(d, n, depth), PositionLine(n, depth)>>
        \o (IF Description(d, n).has /\ Description(d, n).text # <<>>
            THEN <<DescriptionLine(d, n, depth)>> ELSE <<>>)
        \o <<TypeInfoLine(d, n, depth)>>

\* getRecursiveStructure(n, depth) up to its first await
StartTask(d, n, depth) ==
    [pc |-> IF d.rev = "code.ts" THEN "awaitInfo" ELSE "awaitStyle",
     depth |-> depth,
     lines |-> IF d.rev = "code.ts" THEN StartLines_code(d, n, depth)
               ELSE StartLines_part(d, n, depth),
     kids |-> <<>>, next |-> 0, result |-> <<>>]

\* kids.map((child) => getRecursiveStructure(child, depth)): every call is
\* made before anything is awaited
StartAll(d, t, kids, depth) ==
    [n \in DOMAIN t |->
        IF \E i \in 1..Len(kids) : kids[i] = n THEN StartTask(d, n, depth) ELSE t[n]]

\* return lines.join("\n")
Finish(task) ==
    [task EXCEPT !.pc = "done", !.result = Join(task.lines, <<"\n">>)]

Settled(t, kids) == \A i \in 1..Len(kids) : t[kids[i]].pc \in {"done", "rejected"}

AnyRejected(t, kids) == \E i \in 1..Len(kids) : t[kids[i]].pc = "rejected"

AllDone(t, kids) == \A i \in 1..Len(kids) : t[kids[i]].pc = "done"

\* a Promise.all that hands back the results in the order the promises completed
PromiseAllResults_ByCompletion(t, kids, ord) ==
    LET IsKid(n) == \E i \in 1..Len(kids) : kids[i] = n
        done == SelectSeq(ord, IsKid)
    IN  [i \in 1..Len(done) |-> t[done[i]].result]

\* what await Promise.all(promises) yields: the results by position in the
\* array, whatever the order of completion (ord)
PromiseAllResults(t, kids, ord) == [i \in 1..Len(kids) |-> t[kids[i]].result]

\* the children an instance is rendered with in src/unnamed/part_000, given
\* the resolved main component: its own when it has any, else the component's
InstanceKids(d, n, mc) ==
    IF Children(d, n) # <<>> THEN Children(d, n) ELSE Children(d, mc)

\* the for loop over kids reaches child i: the call is made and awaited
AwaitChild(d, t, n, task, kids, i) ==
    [t EXCEPT ![n] = [task EXCEPT !.pc = "awaitChild", !.kids = kids, !.next = i],
              ![kids[i]] = StartTask(d, kids[i], task.depth + 1)]

\* the rest of getRecursiveStructure of src/unnamed/part_000 once the kids
\* to render are known
RenderKids_part(d, t, n, task, kids) ==
    IF kids # <<>> THEN AwaitChild(d, t, n, task, kids, 1)
    ELSE [t EXCEPT ![n] = Finish(task)]

\* src/unnamed/part_000 resumes after await extractStyleInfo(node)
ResumeStyle(n) ==
    /\ tasks[n].pc = "awaitStyle"
    /\ LET styles == extractStyleInfo(doc.rev, StyleProps(doc, n))
           task == [tasks[n] EXCEPT !.lines =
                       @ \o <<Indent(tasks[n].depth) \o <<"- Node Styles: ">>
                                 \o StylesJson(styles.val),
                              \* every rendered node has the constraints property
                              Indent(tasks[n].depth) \o <<"- Constraints: ", "{constraints}">>
                            >>]
       IN  IF ~styles.ok
           THEN /\ tasks' = [tasks EXCEPT ![n].pc = "rejected"]
                /\ order' = order
           ELSE IF Type(doc, n) = "INSTANCE"
           THEN /\ tasks' = [tasks EXCEPT ![n] = [task EXCEPT !.pc = "awaitMain"]]
                /\ order' = order
           ELSE /\ tasks' = RenderKids_part(doc, tasks, n, task,
                                IF HasChildren(doc, n) THEN Children(doc, n) ELSE <<>>)
                /\ order' = IF tasks'[n].pc = "done" THEN Append(order, n) ELSE order
    /\ UNCHANGED <<doc, pc, meta, top, log, handler, toUi, toPlugin, prompt,
                   input, output>>

\* src/unnamed/part_000 resumes after await node.getMainComponentAsync()
ResumeMain(n) ==
    /\ tasks[n].pc = "awaitMain"
    /\ LET mc == getMainComponentAsync(doc, n)
           task == [tasks[n] EXCEPT !.lines =
                       @ \o <<Indent(tasks[n].depth) \o <<"- Component Reference: ">>
                                 \o Name(doc, Component)>>]
       IN  IF ~mc.ok
           THEN tasks' = [tasks EXCEPT ![n].pc = "rejected"]
           ELSE IF mc.val = <<>>
           THEN tasks' = [tasks EXCEPT ![n] = Finish(tasks[n])]
           ELSE tasks' = RenderKids_part(doc, tasks, n, task,
                                         InstanceKids(doc, n, mc.val))
    /\ order' = IF tasks'[n].pc = "done" THEN Append(order, n) ELSE order
    /\ UNCHANGED <<doc, pc, meta, top, log, handler, toUi, toPlugin, prompt,
                   input, output>>

\* src/unnamed/part_000 resumes after await getRecursiveStructure(child)
ResumeChild(n) ==
    /\ tasks[n].pc = "awaitChild"
    /\ LET kids == tasks[n].kids
           i == tasks[n].next
           task == [tasks[n] EXCEPT !.lines = Append(@, tasks[kids[i]].result)]
       IN  /\ tasks[kids[i]].pc \in {"done", "rejected"}
           /\ IF tasks[kids[i]].pc = "rejected"
              THEN tasks' = [tasks EXCEPT ![n].pc = "rejected"]
              ELSE IF i < Len(kids)
              THEN tasks' = AwaitChild(doc, tasks, n, task, kids, i + 1)
              ELSE tasks' = [tasks EXCEPT ![n] = Finish(task)]
    /\ order' = IF tasks'[n].pc = "done" THEN Append(order, n) ELSE order
    /\ UNCHANGED <<doc, pc, meta, top, log, handler, toUi, toPlugin, prompt,
                   input, output>>

\* src/code.ts resumes after await getNodeTypeSpecificInfo(...): the string
\* is spread into push, then the constraints line, then the children
ResumeInfo(n) ==
    /\ tasks[n].pc = "awaitInfo"
    /\ LET depth == tasks[n].depth
           task == [tasks[n] EXCEPT !.lines =
                       @ \o SpreadString(TypeInfoLine(doc, n, depth))
                         \o <<Indent(depth) \o <<"- Constraints: ", "[object Object]">>>>]
           kids == IF HasChildren(doc, n) THEN Children(doc, n) ELSE <<>>
       IN  IF kids # <<>>
           THEN tasks' = [StartAll(doc, tasks, kids, depth + 1) EXCEPT
                             ![n] = [task EXCEPT !.pc = "awaitAll", !.kids = kids]]
           ELSE tasks' = [tasks EXCEPT ![n] = Finish(task)]
    /\ order' = IF tasks'[n].pc = "done" THEN Append(order, n) ELSE order
    /\ UNCHANGED <<doc, pc, meta, top, log, handler, toUi, toPlugin, prompt,
                   input, output>>

\* src/code.ts resumes after await Promise.all(children): with the results
\* once every child is done, with the rejection as soon as one is rejected
ResumeAll(n) ==
    /\ tasks[n].pc = "awaitAll"
    /\ AnyRejected(tasks, tasks[n].kids) \/ AllDone(tasks, tasks[n].kids)
    /\ tasks' = IF AnyRejected(tasks, tasks[n].kids)
                THEN [tasks EXCEPT ![n].pc = "rejected"]
                ELSE [tasks EXCEPT ![n] =
                         Finish([tasks[n] EXCEPT !.lines =
                                    @ \o PromiseAllResults(tasks, tasks[n].kids, order)])]
    /\ order' = IF tasks'[n].pc = "done" THEN Append(order, n) ELSE order
    /\ UNCHANGED <<doc, pc, meta, top, log, handler, toUi, toPlugin, prompt,
                   input, output>>

IdleTop == [pc |-> "idle", kids |-> <<>>, result |-> <<>>]

\* extractStructureInfo(node) up to its await, or to its return
CallExtractStructureInfo(d, n) ==
    IF HasChildren(d, n) /\ Children(d, n) # <<>>
    THEN [pc |-> "awaitAll", kids |-> Children(d, n), result |-> <<>>]
    ELSE [pc |-> "done", kids |-> <<>>, result |-> <<"No child structure found.">>]

\* extractStructureInfo resumes after await Promise.all(children)
ResumeTop ==
    /\ pc = "awaitStructure"
    /\ top.pc = "awaitAll"
    /\ AnyRejected(tasks, top.kids) \/ AllDone(tasks, top.kids)
    /\ top' = IF AnyRejected(tasks, top.kids)
              THEN [top EXCEPT !.pc = "rejected"]
              ELSE [top EXCEPT !.pc = "done",
                        !.result = Join(PromiseAllResults(tasks, top.kids, order),
                                        <<"\n">>)]
    /\ UNCHANGED <<doc, pc, meta, tasks, order, log, handler, toUi, toPlugin,
                   prompt, input, output>>

---------------------------------------------------------------------------
(* main() and the hidden clipboard UI *)

NoMeta == [description |-> <<>>, links |-> <<>>, styles |-> <<>>, structure |-> <<>>]

NotifySelect == "notify:Please select a component before running the plugin."

NotifyGenerated == "notify:LLM prompt generated! Check the console for details."

NotifyCopied == "notify:Prompt copied to clipboard!"

NotifyCopyError == "notify:Error copying to clipboard: "

\* main calls extractStructureInfo(selected) and awaits it
MainCallStructure(styles) ==
    /\ meta' = [meta EXCEPT !.styles = styles]
    /\ top' = CallExtractStructureInfo(doc, Selected)
    /\ tasks' = IF top'.pc = "awaitAll" THEN StartAll(doc, tasks, top'.kids, 1)
                ELSE tasks
    /\ log' = log \o <<"extractStyleInfo", "extractStructureInfo">>
    /\ pc' = "awaitStructure"

\* main() without the return that ends the empty-selection branch
MainStart_NoReturn ==
    /\ pc = "start"
    /\ log' = (IF ~doc.selection THEN <<NotifySelect, "closePlugin">> ELSE <<>>)
                 \o <<"extractDescription">>
    /\ pc' = "awaitDescription"
    /\ UNCHANGED <<doc, meta, tasks, top, order, handler, toUi, toPlugin, prompt,
                   input, output>>

\* main() from its start: the selection check, then the first await
MainStart ==
    /\ pc = "start"
    /\ IF ~doc.selection
       THEN /\ log' = log \o <<NotifySelect, "closePlugin">>
            /\ pc' = "returned"
       ELSE /\ log' = Append(log, "extractDescription")
            /\ pc' = "awaitDescription"
    /\ UNCHANGED <<doc, meta, tasks, top, order, handler, toUi, toPlugin, prompt,
                   input, output>>

\* main resumes after await extractDescription(selected); src/code.ts calls it
\* a second time for the links, src/unnamed/part_000 goes on to the styles
MainAfterDescription ==
    /\ pc = "awaitDescription"
    /\ LET r == extractDescription(doc, Selected)
       IN  IF ~r.ok
           THEN /\ pc' = "rejected"
                /\ UNCHANGED <<meta, log>>
           ELSE IF doc.rev = "code.ts"
           THEN /\ meta' = [meta EXCEPT !.description = r.val]
                /\ log' = Append(log, "extractDescription")
                /\ pc' = "awaitDescription2"
           ELSE /\ meta' = [meta EXCEPT !.description = r.val,
                                        !.links = extractLinks(r.val)]
                /\ log' = Append(log, "extractStyleInfo")
                /\ pc' = "awaitStyle"
    /\ UNCHANGED <<doc, tasks, top, order, handler, toUi, toPlugin, prompt,
                   input, output>>

\* src/code.ts resumes after the second await extractDescription(selected):
\* the links, the styles (a plain call), then extractStructureInfo
MainAfterDescription2 ==
    /\ pc = "awaitDescription2"
    /\ LET r == extractDescription(doc, Selected)
           styles == extractStyleInfo(doc.rev, StyleProps(doc, Selected))
       IN  IF ~r.ok \/ ~styles.ok
           THEN /\ pc' = "rejected"
                /\ log' = IF r.ok THEN Append(log, "extractStyleInfo") ELSE log
                /\ UNCHANGED <<meta, tasks, top>>
           ELSE /\ MainCallStructure(styles.val)
    /\ UNCHANGED <<doc, order, handler, toUi, toPlugin, prompt, input, output>>

\* src/unnamed/part_000 resumes after await extractStyleInfo(selected)
MainAfterStyle ==
    /\ pc = "awaitStyle"
    /\ LET styles == extractStyleInfo(doc.rev, StyleProps(doc, Selected))
       IN  IF ~styles.ok
           THEN /\ pc' = "rejected"
                /\ UNCHANGED <<meta, tasks, top, log>>
           ELSE /\ meta' = [meta EXCEPT !.styles = styles.val]
                /\ top' = CallExtractStructureInfo(doc, Selected)
                /\ tasks' = IF top'.pc = "awaitAll"
                            THEN StartAll(doc, tasks, top'.kids, 1) ELSE tasks
                /\ log' = Append(log, "extractStructureInfo")
                /\ pc' = "awaitStructure"
    /\ UNCHANGED <<doc, order, handler, toUi, toPlugin, prompt, input, output>>

\* main resumes after await extractStructureInfo(selected): the prompt, the
\* notification, the hidden UI, the message handler, then the copy message
MainAfterStructure ==
    /\ pc = "awaitStructure"
    /\ top.pc \in {"done", "rejected"}
    /\ LET metadata == [meta EXCEPT !.structure = top.result]
           p == generatePrompt(doc, metadata)
       IN  IF top.pc = "rejected"
           THEN /\ pc' = "rejected"
                /\ UNCHANGED <<meta, log, handler, toUi, prompt>>
           ELSE IF ~p.ok
           THEN /\ pc' = "rejected"
                /\ meta' = metadata
                /\ log' = Append(log, "generatePrompt")
                /\ UNCHANGED <<handler, toUi, prompt>>
           ELSE /\ pc' = "returned"
                /\ meta' = metadata
                /\ prompt' = p.val
                /\ log' = log \o <<"generatePrompt", NotifyGenerated, "console.log",
                                   "showUI", "onmessage", "postMessage:copy">>
                /\ handler' = TRUE
                /\ toUi' = Append(toUi, [type |-> "copy", text |-> p.val])
    /\ UNCHANGED <<doc, tasks, top, order, toPlugin, input, output>>

\* what the UI posts back for a copy message: complete when
\* navigator.clipboard.writeText resolved, else error with the message
UiReply(written) ==
    IF written THEN [type |-> "complete", message |-> ""]
    ELSE [type |-> "error", message |-> "NotAllowedError"]

\* window.onmessage of the hidden UI: one reply for each copy message
UiOnMessage ==
    /\ toUi # <<>>
    /\ toUi' = Tail(toUi)
    /\ IF Head(toUi).type = "copy"
       THEN \E written \in BOOLEAN : toPlugin' = Append(toPlugin, UiReply(written))
       ELSE toPlugin' = toPlugin
    /\ UNCHANGED <<doc, pc, meta, tasks, top, order, log, handler, prompt,
                   input, output>>

\* a handler that closes the plugin before it notifies
OnMessageCalls_CloseFirst(msg) ==
    CASE msg.type = "complete" -> <<"closePlugin", NotifyCopied>>
      [] msg.type = "error" -> <<"closePlugin", NotifyCopyError \o msg.message>>
      [] OTHER -> <<>>

\* the calls figma.ui.onmessage makes for a message
OnMessageCalls(msg) ==
    CASE msg.type = "complete" -> <<NotifyCopied, "closePlugin">>
      [] msg.type = "error" -> <<NotifyCopyError \o msg.message, "closePlugin">>
      [] OTHER -> <<>>

\* figma.ui.onmessage, once installed, handles a message from the UI
PluginOnMessage ==
    /\ handler
    /\ toPlugin # <<>>
    /\ toPlugin' = Tail(toPlugin)
    /\ log' = log \o OnMessageCalls(Head(toPlugin))
    /\ UNCHANGED <<doc, pc, meta, tasks, top, order, handler, toUi, prompt,
                   input, output>>

---------------------------------------------------------------------------
(* The documents a run starts from *)

EmptyDescription == [has |-> TRUE, text |-> <<>>]

PlainDescription ==
    [has |-> TRUE, text |-> <<"A", " ", "card", " ", "https://figma.com/f", " ", "ok">>]

MarkedDescription ==
    [has |-> TRUE,
     text |-> <<"Intro", " ", "text", " ", "DESCRIPTION:", " ", "Build", " ", "a",
                " ", "login", " ", "form">>]

TwiceMarkedDescription ==
    [has |-> TRUE,
     text |-> <<"DESCRIPTION:", " ", "First", " ", "DESCRIPTION:", " ", "Second">>]

Descriptions ==
    {NoDescription, EmptyDescription, PlainDescription, MarkedDescription,
     TwiceMarkedDescription}

\* a frame with a parent and a sibling text node, one text child, no instance
DefaultDoc ==
    [rev |-> "part_000", selection |-> TRUE, hasParent |-> TRUE, hasSibling |-> TRUE,
     selText |-> FALSE, width |-> 1, height |-> 1, inst |-> "none", instOwn |-> TRUE,
     mc |-> "component", compKids |-> 0, bad |-> "none",
     parentDesc |-> MarkedDescription, selDesc |-> PlainDescription,
     compDesc |-> PlainDescription, marker |-> "none"]

\* width and height of the selected node's subtree
Shapes ==
    {wh \in (0..MaxChildren) \X (1..MaxDepth) :
        /\ wh[1] = 0 => wh[2] = 1
        /\ wh[1] * wh[2] <= MaxNodes}

\* every shape, with an instance (selected node or first child) in every state
\* of its own children and of its main component
StructureDocs ==
    {[DefaultDoc EXCEPT !.rev = r, !.width = wh[1], !.height = wh[2]] :
        r \in Revisions, wh \in Shapes}
    \cup
    {[DefaultDoc EXCEPT !.rev = r, !.width = wh[1], !.height = wh[2], !.inst = i,
                        !.instOwn = own, !.mc = m, !.compKids = k] :
        r \in Revisions, wh \in Shapes, i \in {"selected", "child"},
        own \in BOOLEAN, m \in MainComponentOutcomes, k \in 0..MaxChildren}

\* a capability whose value cannot be serialized
FailureDocs ==
    {[DefaultDoc EXCEPT !.rev = r, !.width = wh[1], !.height = wh[2], !.bad = b] :
        r \in Revisions, wh \in Shapes,
        b \in {"fills", "strokes", "fontName", "paddings"}}

\* the places the project description can be
PromptDocs ==
    {[DefaultDoc EXCEPT !.rev = r, !.hasParent = hp, !.hasSibling = hp,
                        !.selText = st, !.width = IF st THEN 0 ELSE 1,
                        !.parentDesc = pd, !.selDesc = sd, !.marker = mk] :
        r \in Revisions, hp \in BOOLEAN, st \in BOOLEAN,
        pd \in {NoDescription, MarkedDescription},
        sd \in {NoDescription, PlainDescription, TwiceMarkedDescription},
        mk \in {"none", "title", "both"}}

\* nothing is selected
EmptySelectionDocs ==
    {[DefaultDoc EXCEPT !.rev = r, !.selection = FALSE] : r \in Revisions}

\* a document is well formed: an instance that is the first child exists
WellFormed(d) == d.inst = "child" => d.width >= 1

Docs ==
    {d \in StructureDocs \cup FailureDocs \cup PromptDocs \cup EmptySelectionDocs :
        WellFormed(d)}

Init ==
    /\ doc \in Docs
    /\ pc = "start"
    /\ meta = NoMeta
    /\ tasks = [n \in RenderNodes |-> IdleTask]
    /\ top = IdleTop
    /\ order = <<>>
    /\ log = <<>>
    /\ handler = FALSE
    /\ toUi = <<>>
    /\ toPlugin = <<>>
    /\ prompt = <<>>
    /\ input = <<>>
    /\ output = <<>>

Next ==
    \/ MainStart
    \/ MainAfterDescription
    \/ MainAfterDescription2
    \/ MainAfterStyle
    \/ \E n \in RenderNodes : ResumeStyle(n)
    \/ \E n \in RenderNodes : ResumeMain(n)
    \/ \E n \in RenderNodes : ResumeChild(n)
    \/ \E n \in RenderNodes : ResumeInfo(n)
    \/ \E n \in RenderNodes : ResumeAll(n)
    \/ ResumeTop
    \/ MainAfterStructure
    \/ UiOnMessage
    \/ PluginOnMessage

Spec == Init /\ [][Next]_vars

---------------------------------------------------------------------------
(* Runs of the pure functions: one call on one input *)

NoOutput == [fn |-> "none", res |-> Return(<<>>)]

\* the selected node, its parent and the main component in every state of
\* their descriptions
DescriptionDocs ==
    {[DefaultDoc EXCEPT !.rev = r, !.inst = i, !.mc = m, !.hasParent = hp,
                        !.hasSibling = hp, !.selText = (st /\ i = "none"),
                        !.width = IF st /\ i = "none" THEN 0 ELSE 1,
                        !.parentDesc = pd, !.selDesc = sd, !.compDesc = sd,
                        !.marker = mk] :
        r \in Revisions, i \in {"none", "selected"}, m \in MainComponentOutcomes,
        hp \in BOOLEAN, st \in BOOLEAN, pd \in Descriptions, sd \in Descriptions,
        mk \in {"none", "title", "sibling", "both"}}

InitDescription ==
    /\ doc \in DescriptionDocs
    /\ pc = "pure"
    /\ meta = NoMeta
    /\ tasks = [n \in RenderNodes |-> IdleTask]
    /\ top = IdleTop
    /\ order = <<>>
    /\ log = <<>>
    /\ handler = FALSE
    /\ toUi = <<>>
    /\ toPlugin = <<>>
    /\ prompt = <<>>
    /\ input = <<>>
    /\ output = NoOutput

RunExtractDescription ==
    /\ pc = "pure"
    /\ output.fn = "none"
    /\ output' = [fn |-> "extractDescription", res |-> extractDescription(doc, Selected)]
    /\ UNCHANGED <<doc, pc, meta, tasks, top, order, log, handler, toUi, toPlugin,
                   prompt, input>>

RunGetProjectDescription ==
    /\ pc = "pure"
    /\ output.fn = "none"
    /\ output' = [fn |-> "getProjectDescription", res |-> getProjectDescription(doc)]
    /\ UNCHANGED <<doc, pc, meta, tasks, top, order, log, handler, toUi, toPlugin,
                   prompt, input>>

NextDescription == RunExtractDescription \/ RunGetProjectDescription

SpecDescription == InitDescription /\ [][NextDescription]_vars

\* the values a paint capability can hold
PaintValues ==
    {[kind |-> "absent", paints |-> <<>>],
     [kind |-> "array", paints |-> <<>>],
     [kind |-> "array", paints |-> <<"SOLID">>],
     [kind |-> "array", paints |-> <<"SOLID", "IMAGE">>],
     [kind |-> "array", paints |-> <<"SOLID", "CYCLIC">>],
     [kind |-> "single", paints |-> <<"MIXED">>],
     [kind |-> "single", paints |-> <<"CYCLIC">>]}

StyleInputs ==
    [rev : Revisions, fills : PaintValues, strokes : PaintValues,
     fontName : {"absent", "Inter", "MIXED", "CYCLIC"},
     fontSize : {"absent", "12", "MIXED"},
     layoutMode : {"absent", "NONE", "VERTICAL", "HORIZONTAL"},
     padding : {"absent", "8", "SYMBOL"}, x : {"0"}, y : {"0"}]

InitStyle ==
    /\ input \in StyleInputs
    /\ doc = DefaultDoc
    /\ pc = "pure"
    /\ meta = NoMeta
    /\ tasks = [n \in RenderNodes |-> IdleTask]
    /\ top = IdleTop
    /\ order = <<>>
    /\ log = <<>>
    /\ handler = FALSE
    /\ toUi = <<>>
    /\ toPlugin = <<>>
    /\ prompt = <<>>
    /\ output = NoOutput

RunExtractStyleInfo ==
    /\ pc = "pure"
    /\ output.fn = "none"
    /\ output' = [fn |-> "extractStyleInfo", res |-> extractStyleInfo(input.rev, input)]
    /\ UNCHANGED <<doc, pc, meta, tasks, top, order, log, handler, toUi, toPlugin,
                   prompt, input>>

NextStyle == RunExtractStyleInfo

SpecStyle == InitStyle /\ [][NextStyle]_vars

---------------------------------------------------------------------------
(* Properties *)

IsNotify(e) == e \in {NotifySelect, NotifyGenerated, NotifyCopied,
                      NotifyCopyError \o "NotAllowedError"}

Count(l, Test(_)) == Cardinality({i \in 1..Len(l) : Test(l[i])})

InLog(e) == \E i \in 1..Len(log) : log[i] = e

RECURSIVE ConcatAll(_)
ConcatAll(ss) == IF ss = <<>> THEN <<>> ELSE Head(ss) \o ConcatAll(Tail(ss))

\* the lines of the blocks of kids, in the order of kids
KidLines(t, kids) == ConcatAll([i \in 1..Len(kids) |-> SplitLines(t[kids[i]].result)])

EndsWith(l, suffix) ==
    /\ Len(suffix) <= Len(l)
    /\ SubSeq(l, Len(l) - Len(suffix) + 1, Len(l)) = suffix

\* the first line of text that is the header of node n rendered at depth (0: none)
HeaderIndex(text, n, depth) ==
    LET ls == SplitLines(text)
        hits == {i \in 1..Len(ls) : ls[i] = HeaderLine(doc, n, depth)}
    IN  IF hits = {} THEN 0 ELSE CHOOSE i \in hits : \A j \in hits : i <= j

\* the blocks of kids stand in text in the order of kids, each one whole
BlocksInOrder(text, kids, depth) ==
    /\ EndsWith(SplitLines(text), KidLines(tasks, kids))
    /\ \A i, j \in 1..Len(kids) :
          i < j => /\ HeaderIndex(text, kids[i], depth) > 0
                   /\ HeaderIndex(text, kids[i], depth) < HeaderIndex(text, kids[j], depth)

\* C1: a run of main() with an empty selection makes exactly one notification
\* (the one asking for a selection), closes the plugin, and calls none of
\* extractDescription, extractStyleInfo, extractStructureInfo,
\* getRecursiveStructure, generatePrompt, showUI, postMessage
C1_EmptySelectionNoExtraction ==
    (~doc.selection /\ pc # "start") =>
        /\ pc = "returned"
        /\ Count(log, IsNotify) = 1
        /\ InLog(NotifySelect)
        /\ InLog("closePlugin")
        /\ \A e \in {"extractDescription", "extractStyleInfo", "extractStructureInfo",
                     "generatePrompt", "showUI", "postMessage:copy"} : ~InLog(e)
        /\ \A n \in RenderNodes : tasks[n].pc = "idle"
        /\ top.pc = "idle"
        /\ meta = NoMeta
        /\ toUi = <<>>

C1_Witness == ~doc.selection /\ pc = "returned" /\ InLog("closePlugin")

\* C2: every run of main() on a non-empty selection that is aborted by a
\* failure (an exception during extraction or prompt assembly, a rejected
\* main-component resolution) has notified the user of the failure, and a
\* run that returned has reported success
C2_EveryRunNotifies ==
    doc.selection =>
        /\ pc = "rejected" => \E i \in 1..Len(log) : IsNotify(log[i])
        /\ pc = "returned" => InLog(NotifyGenerated)

\* C3: an instance with own children that getRecursiveStructure has rendered
\* has each own child rendered at depth + 1 and in its text, and no child of
\* the main component rendered, whatever the main component resolved to
C3_InstanceOwnChildren ==
    \A n \in RenderNodes :
        (/\ tasks[n].pc = "done"
         /\ Type(doc, n) = "INSTANCE"
         /\ Children(doc, n) # <<>>) =>
            /\ \A i \in 1..Len(Children(doc, n)) :
                  /\ tasks[Children(doc, n)[i]].pc = "done"
                  /\ tasks[Children(doc, n)[i]].depth = tasks[n].depth + 1
                  /\ HeaderIndex(tasks[n].result, Children(doc, n)[i],
                                 tasks[n].depth + 1) > 0
            /\ \A c \in RenderNodes : c[1] = 2 => tasks[c].pc = "idle"

\* the text rendered for the instance, and the depth it was rendered at (0 for
\* the selected node, whose children extractStructureInfo renders at depth 1)
InstanceRendering ==
    IF InstNode(doc) = Selected
    THEN [done |-> top.pc = "done", text |-> top.result, depth |-> 0]
    ELSE [done |-> tasks[InstNode(doc)].pc = "done",
          text |-> tasks[InstNode(doc)].result,
          depth |-> tasks[InstNode(doc)].depth]

\* C4: for an instance with no own children whose main component resolves to
\* a node with children, the structure text of the instance holds the
\* rendering of each child of the main component at depth + 1, both when the
\* instance is a descendant and when it is the selected node
C4_InstanceFallsBackToMainComponent ==
    (/\ doc.selection
     /\ InstNode(doc) # <<>>
     /\ Children(doc, InstNode(doc)) = <<>>
     /\ doc.mc = "component"
     /\ Children(doc, Component) # <<>>
     /\ InstanceRendering.done) =>
        \A i \in 1..Len(Children(doc, Component)) :
            /\ tasks[Children(doc, Component)[i]].pc = "done"
            /\ HeaderIndex(InstanceRendering.text, Children(doc, Component)[i],
                           InstanceRendering.depth + 1) > 0

DescriptionSentinels ==
    {<<"No description provided">>,
     <<"No description provided in the selected component.">>}

\* the node whose description extractDescription(Selected) is to return
\* (<<>>: the main component did not resolve to a node)
DescriptionSource ==
    IF Type(doc, Selected) # "INSTANCE" THEN Selected
    ELSE IF doc.mc = "component" THEN Component
    ELSE <<>>

\* C6: extractDescription never throws and returns a non-empty string: the
\* description of the main component (instance) or of the node itself when
\* that is present and non-empty, and the sentinel when the resolution fails
\* (nothing, or a rejection) or the description is absent or empty
C6_DescriptionFailsSoft ==
    output.fn = "extractDescription" =>
        /\ output.res.ok
        /\ output.res.val # <<>>
        /\ IF /\ DescriptionSource # <<>>
              /\ Description(doc, DescriptionSource).has
              /\ Description(doc, DescriptionSource).text # <<>>
           THEN output.res.val = Description(doc, DescriptionSource).text
           ELSE output.res.val \in DescriptionSentinels

\* the container of getProjectDescription
ProjectContainer == IF doc.hasParent THEN Container ELSE Selected

\* the text nodes below the container whose characters hold the marker, in
\* document order
MarkedTextNodes ==
    SelectSeq(Descendants(doc, ProjectContainer),
              LAMBDA n : Type(doc, n) = "TEXT" /\ Includes(Characters(doc, n), Marker))

\* C7: getProjectDescription is total and returns, in this order: the trimmed
\* text after the marker in the container's description; else the trimmed
\* text after the marker of the first text descendant holding the marker;
\* else (also for a container that has no descendants capability) the default
C7_ProjectDescriptionTotal ==
    output.fn = "getProjectDescription" =>
        /\ output.res.ok
        /\ output.res.val =
              IF /\ Description(doc, ProjectContainer).has
                 /\ Includes(Description(doc, ProjectContainer).text, Marker)
              THEN AfterMarker(Description(doc, ProjectContainer).text)
              ELSE IF MarkedTextNodes # <<>>
              THEN AfterMarker(Characters(doc, MarkedTextNodes[1]))
              ELSE DEFAULT_DESCRIPTION

\* the capabilities whose value is serialized, and whether it fails
StyleCapabilities == {"fills", "strokes", "fontName", "padding"}

SerializationFails(in, c) ==
    CASE c = "fills" -> in.fills.kind # "absent" /\ ~processPaints(in.fills).ok
      [] c = "strokes" -> in.strokes.kind # "absent" /\ ~processPaints(in.strokes).ok
      [] c = "fontName" -> in.fontName = "CYCLIC"
      [] c = "padding" -> in.padding = "SYMBOL"

\* the input with capability c holding a value that serializes
Healed(in, c) ==
    CASE c = "fills" -> [in EXCEPT !.fills = [kind |-> "array", paints |-> <<"SOLID">>]]
      [] c = "strokes" -> [in EXCEPT !.strokes = [kind |-> "array", paints |-> <<"SOLID">>]]
      [] c = "fontName" -> [in EXCEPT !.fontName = "Inter"]
      [] c = "padding" -> [in EXCEPT !.padding = "8"]

\* the StyleInfo field capability c fills
FieldOf(c) ==
    CASE c = "fontName" -> "fontFamily" [] c = "padding" -> "paddings" [] OTHER -> c

\* C8: when the serialization of one capability fails, extractStyleInfo still
\* returns a StyleInfo, that capability's field is its 'Could not parse'
\* sentinel, and every other field is what it is when the capability
\* serializes
C8_StyleFailureIsolated ==
    output.fn = "extractStyleInfo" =>
        \A c \in StyleCapabilities :
            (/\ SerializationFails(input, c)
             /\ \A o \in StyleCapabilities \ {c} : ~SerializationFails(input, o)
             /\ c = "fontName" => input.rev = "part_000") =>
                LET healthy == extractStyleInfo(input.rev, Healed(input, c)).val
                IN  /\ output.res.ok
                    /\ output.res.val[FieldOf(c)]
                          \in {<<"Could not parse fills">>, <<"Could not parse strokes">>,
                               <<"Could not parse font name">>,
                               <<"Could not parse padding">>}
                    /\ \A f \in DOMAIN healthy \ {FieldOf(c)} :
                          output.res.val[f] = healthy[f]

\* the number of indentation units a line begins with
RECURSIVE LeadingIndent(_)
LeadingIndent(line) ==
    IF line # <<>> /\ Head(line) = "  " THEN 1 + LeadingIndent(Tail(line)) ELSE 0

\* an element of a task's lines that is the block of one of its children
IsKidBlock(n, l) ==
    \E i \in 1..Len(tasks[n].kids) :
        tasks[tasks[n].kids[i]].pc = "done" /\ tasks[tasks[n].kids[i]].result = l

\* C9: in the structure text of a selected node the selected node stands at
\* depth 1 and each child at its parent's depth + 1, and every line emitted
\* for a node at depth d begins with exactly 2*d spaces
C9_SelectedAtDepthOne ==
    /\ (doc.selection /\ top.pc = "done" /\ top.kids # <<>>) =>
          /\ HeaderIndex(top.result, Selected, 1) > 0
          /\ \A i \in 1..Len(top.kids) : HeaderIndex(top.result, top.kids[i], 2) > 0
    /\ \A n \in RenderNodes : \A i \in 1..Len(tasks[n].lines) :
          \/ IsKidBlock(n, tasks[n].lines[i])
          \/ /\ LeadingIndent(tasks[n].lines[i]) = tasks[n].depth
             /\ Len(tasks[n].lines[i]) > tasks[n].depth

=============================================================================
